---- MODULE Spec2Model ----
(***************************************************************************)
(* Model of functree_timer (src/src/functree_timer/__init__.py): the       *)
(* timeit decorator's wrappers, the per-thread call stack / call-id        *)
(* counter / tracking list, and the flush pipeline _log_top_functions      *)
(* (_build_call_tree, the top_k filter, _format_tree_node, the log file).  *)
(*                                                                         *)
(* One thread runs one logical sequence of properly nested instrumented    *)
(* calls.  `frames` is the interpreter's stack of wrapper activations      *)
(* (their locals); `call_stack`, `call_id_counter` and `tracking` are the  *)
(* attributes of _thread_local; `sink` is the log file; `now` is what      *)
(* time.time() returns.                                                    *)
(***************************************************************************)
EXTENDS Integers, Sequences, FiniteSets, TLC

VARIABLES
    decorated,        \* the decorated functions of the program (fixed at import)
    call_stack,       \* _thread_local.call_stack: Seq of <<name, call_id>>
    call_id_counter,  \* _thread_local.call_id_counter
    tracking,         \* _thread_local.tracking: Seq of entries
    sink,             \* the log file: Seq of lines
    now,              \* the value time.time() returns
    frames,           \* in-flight wrapper activations, outermost first
    entry_stack,      \* per in-flight activation: call_stack as it was just before entry
    caller,           \* call_id -> call_id of the activation that made the call (None: top
                      \* level), for the calls in flight and the calls with an entry in tracking
    lastExit,         \* what the wrapper that exited in the last step delivered to its caller
    flush,            \* the locals of the _log_top_functions run of the last step
    \* Several execution contexts (threads, and asyncio tasks of one thread):
    thread_of,        \* worker -> the thread it runs on
    tls,              \* thread -> the attributes of _thread_local as that thread sees them
    act,              \* worker -> its in-flight wrapper activations, outermost first
    files,            \* worker -> the lines its open log file object has not yet written
    last,             \* the worker that took the last step, and what its wrapper did
    hist              \* history: who wrote each line of the sink, who created each record,
                      \* and what was in flight when each call entered

\* The state of the single call sequence, and the state of the workers.
svars == <<call_stack, call_id_counter, tracking, frames, entry_stack, caller,
           lastExit, flush>>
wvars == <<thread_of, tls, act, files, last, hist>>

vars == <<decorated, call_stack, call_id_counter, tracking, sink, now, frames,
          entry_stack, caller, lastExit, flush, thread_of, tls, act, files, last, hist>>

----------------------------------------------------------------------------
(* Bounds of the model. *)

MaxCalls == 3      \* calls entered in one behaviour (cap on call_id_counter)
MaxTime  == 1      \* time.time() ranges over 0..MaxTime

----------------------------------------------------------------------------
(* Values. *)

\* Python's None as a parent_id; call ids start at 1, so 0 is no call id.
None == 0

\* top_k is "full" or an int (timeit's parameter).
Full   == [full |-> TRUE,  k |-> 0]
TopK(n) == [full |-> FALSE, k |-> n]

\* A decorated function: the closure values of its wrapper (func.__name__,
\* sync or async, minimum_duration, top_k).
Decorated(name, kind, minimum_duration, top_k) ==
    [name |-> name, kind |-> kind, minimum_duration |-> minimum_duration, top_k |-> top_k]

\* The programs under test: each is the set of functions it decorates with
\* timeit(minimum_duration=..., top_k=...).
Programs ==
    { { Decorated("main",  "sync",  0, TopK(1)),
        Decorated("fetch", "async", 1, Full) },
      { Decorated("main",  "sync",  0, TopK(-1)),
        Decorated("fetch", "async", 1, TopK(0)) } }

Last(s) == s[Len(s)]
RemoveAt(s, i) == SubSeq(s, 1, i - 1) \o SubSeq(s, i + 1, Len(s))
Range(s) == { s[i] : i \in 1..Len(s) }

----------------------------------------------------------------------------
(* Context state store: lines 13-30. *)

\* A counter that wraps around after two ids.
GetNextCallIdWrapping(counter) == (counter % 2) + 1

GetNextCallId(counter) == counter + 1

----------------------------------------------------------------------------
(* Wrapper entry: lines 195-203 (sync), 166-174 (async). *)

\* Attribution to the outermost frame instead of the innermost.
ParentIdOutermost(stack) == IF stack # <<>> THEN stack[1][2] ELSE None

\* The parent read one frame below the top of the stack (call_stack[-2]).
ParentIdBelowTop(stack) == IF Len(stack) >= 2 THEN stack[Len(stack) - 1][2] ELSE None

ParentId(stack) == IF stack # <<>> THEN Last(stack)[2] ELSE None

\* A depth read after the push.
DepthAfterPush(stack) == Len(stack) + 1

Depth(stack) == Len(stack)

Push(stack, name, call_id) == Append(stack, <<name, call_id>>)

\* The locals of a wrapper activation of the decorated function f.
Activation(f, stack, call_id, start_time) ==
    [name             |-> f.name,
     kind             |-> f.kind,
     minimum_duration |-> f.minimum_duration,
     top_k            |-> f.top_k,
     call_id          |-> call_id,
     parent_id        |-> ParentId(stack),
     depth            |-> Depth(stack),
     start_time       |-> start_time]

----------------------------------------------------------------------------
(* Wrapper exit: lines 204-219 (sync), 175-190 (async). *)

Pop(stack) == SubSeq(stack, 1, Len(stack) - 1)

\* A wrapper that pops only after a normal return (no finally).
AfterCallNoFinally(stack, outcome) == IF outcome = "return" THEN Pop(stack) ELSE stack

\* A wrapper that pops in its finally block and once more after it.
AfterCallPopsTwice(stack, outcome) == Pop(Pop(stack))

\* try: ... finally: call_stack.pop() -- runs however the wrapped callable ended
\* (outcome is "return", "raise" or "cancel").
AfterCall(stack, outcome) == Pop(stack)

\* A threshold test that drops a duration equal to the threshold.
MeetsThresholdStrict(duration, minimum_duration) == duration > minimum_duration

\* if duration >= minimum_duration:
MeetsThreshold(duration, minimum_duration) == duration >= minimum_duration

\* (func.__name__, duration, "sync"|"async", depth, parent_id, call_id)
Entry(fr, duration) ==
    [func_name |-> fr.name,
     duration  |-> duration,
     func_type |-> fr.kind,
     depth     |-> fr.depth,
     parent_id |-> fr.parent_id,
     call_id   |-> fr.call_id]

----------------------------------------------------------------------------
(* _build_call_tree: lines 32-49. *)

\* A sort with reverse=True, as the one of line 90.
RECURSIVE SortByCallIdReversed(_)
SortByCallIdReversed(entries) ==
    IF entries = <<>> THEN <<>>
    ELSE LET i == CHOOSE i \in 1..Len(entries) :
                    /\ \A j \in 1..Len(entries) : entries[j].call_id <= entries[i].call_id
                    /\ \A j \in 1..(i - 1) : entries[j].call_id < entries[i].call_id
         IN  <<entries[i]>> \o SortByCallIdReversed(RemoveAt(entries, i))

\* list.sort(key=lambda x: x[5]): stable, ascending call_id.
RECURSIVE SortByCallId(_)
SortByCallId(entries) ==
    IF entries = <<>> THEN <<>>
    ELSE LET i == CHOOSE i \in 1..Len(entries) :
                    /\ \A j \in 1..Len(entries) : entries[j].call_id >= entries[i].call_id
                    /\ \A j \in 1..(i - 1) : entries[j].call_id > entries[i].call_id
         IN  <<entries[i]>> \o SortByCallId(RemoveAt(entries, i))

\* root_nodes in tracking order; tree maps every parent_id that occurs to the
\* entries that carry it, sorted by call_id.
BuildCallTree(trk) ==
    LET parents == { trk[i].parent_id : i \in 1..Len(trk) } \ {None}
    IN  [root_nodes |-> SelectSeq(trk, LAMBDA e : e.parent_id = None),
         tree       |-> [p \in parents |->
                            SortByCallId(SelectSeq(trk, LAMBDA e : e.parent_id = p))]]

----------------------------------------------------------------------------
(* _format_tree_node: lines 51-67. *)

\* The prefixes of a last child and of any other child (box-drawing strings in
\* the source).
LastChildPrefix == "+-- "
ChildPrefix     == "|-- "

\* One rendered node: the entry with the indent and prefix it is written with.
Node(entry, indent, prefix) == [entry |-> entry, indent |-> indent, prefix |-> prefix]

\* node_str: 4 spaces per indent level, the prefix, then name, type and duration.
NodeStr(node) ==
    <<4 * node.indent, node.prefix, node.entry.func_name, node.entry.func_type,
      node.entry.duration>>

RECURSIVE FormatTreeNode(_, _, _, _)
RECURSIVE FormatChildren(_, _, _, _)
FormatTreeNode(entry, tree, indent, prefix) ==
    <<Node(entry, indent, prefix)>> \o
    (IF entry.call_id \in DOMAIN tree
       THEN FormatChildren(tree[entry.call_id], 1, tree, indent + 1)
       ELSE <<>>)

\* for i, child in enumerate(children): ... lines.extend(child_lines)
FormatChildren(children, i, tree, indent) ==
    IF i > Len(children) THEN <<>>
    ELSE FormatTreeNode(children[i], tree, indent,
                        IF i = Len(children) THEN LastChildPrefix ELSE ChildPrefix)
         \o FormatChildren(children, i + 1, tree, indent)

\* for root in root_nodes: lines = _format_tree_node(root, tree, 0, "")
RECURSIVE FormatRoots(_, _)
FormatRoots(root_nodes, tree) ==
    IF root_nodes = <<>> THEN <<>>
    ELSE FormatTreeNode(Head(root_nodes), tree, 0, "") \o FormatRoots(Tail(root_nodes), tree)

Separator == <<0, "", "------", "", 0>>

----------------------------------------------------------------------------
(* The top_k filter of _log_top_functions: lines 80-111. *)

\* collect_nodes: pre-order over the entries reachable from `entries`.
RECURSIVE CollectNodes(_, _)
CollectNodes(entries, tree) ==
    IF entries = <<>> THEN <<>>
    ELSE LET entry == Head(entries)
         IN  <<entry>>
             \o (IF entry.call_id \in DOMAIN tree
                   THEN CollectNodes(tree[entry.call_id], tree) ELSE <<>>)
             \o CollectNodes(Tail(entries), tree)

\* all_nodes.sort(key=lambda x: x[1], reverse=True): stable, descending duration.
RECURSIVE SortByDurationDesc(_)
SortByDurationDesc(entries) ==
    IF entries = <<>> THEN <<>>
    ELSE LET i == CHOOSE i \in 1..Len(entries) :
                    /\ \A j \in 1..Len(entries) : entries[j].duration <= entries[i].duration
                    /\ \A j \in 1..(i - 1) : entries[j].duration < entries[i].duration
         IN  <<entries[i]>> \o SortByDurationDesc(RemoveAt(entries, i))

Max(a, b) == IF a >= b THEN a ELSE b
Min(a, b) == IF a <= b THEN a ELSE b

\* A slice that is one element short.
SliceToShort(s, k) == SubSeq(s, 1, Min(Max(k - 1, 0), Len(s)))

\* A slice that takes a negative stop for zero.
SliceToClamped(s, k) == SubSeq(s, 1, Min(Max(k, 0), Len(s)))

\* all_nodes[:top_k], a Python slice: a negative stop counts from the end.
SliceTo(s, k) ==
    IF k >= 0 THEN SubSeq(s, 1, Min(k, Len(s)))
    ELSE SubSeq(s, 1, Max(Len(s) + k, 0))

\* top_call_ids
TopCallIds(root_nodes, tree, k) ==
    { e.call_id : e \in Range(SliceTo(SortByDurationDesc(CollectNodes(root_nodes, tree)), k)) }

\* filter_tree: returns the filtered list and the tree dict as the calls have
\* rewritten it (tree[call_id] = children only when children is non-empty).
RECURSIVE FilterTree(_, _, _)
FilterTree(entries, tree, top_call_ids) ==
    IF entries = <<>> THEN [filtered |-> <<>>, tree |-> tree]
    ELSE LET entry    == Head(entries)
             call_id  == entry.call_id
             has      == call_id \in DOMAIN tree
             sub      == IF has THEN FilterTree(tree[call_id], tree, top_call_ids)
                         ELSE [filtered |-> <<>>, tree |-> tree]
             children == sub.filtered
             tree1    == IF has /\ children # <<>>
                           THEN [sub.tree EXCEPT ![call_id] = children]
                           ELSE sub.tree
             keep     == \/ call_id \in top_call_ids
                         \/ has /\ children # <<>>
             rest     == FilterTree(Tail(entries), tree1, top_call_ids)
         IN  [filtered |-> (IF keep THEN <<entry>> ELSE <<>>) \o rest.filtered,
              tree     |-> rest.tree]

----------------------------------------------------------------------------
(* _log_top_functions: lines 69-125. *)

EmptyTree == [p \in {} |-> <<>>]

\* No _log_top_functions run in this step.
NoFlush ==
    [ran          |-> FALSE,
     top_k        |-> Full,
     tracking     |-> <<>>,       \* the tracking list it read (line 71)
     built_roots  |-> <<>>,       \* root_nodes after line 77
     built_tree   |-> EmptyTree,  \* tree after line 75
     top_call_ids |-> {},         \* line 92
     root_nodes   |-> <<>>,       \* root_nodes at line 113
     tree         |-> EmptyTree,  \* tree at line 113
     rendered     |-> <<>>,       \* the nodes of the lines written, in order
     written      |-> FALSE,      \* a block was appended to the sink
     io_error     |-> FALSE,      \* os.makedirs / open raised
     cleared      |-> FALSE]      \* lines 124-125 ran

\* io_ok: whether os.makedirs and open(logFile, "a") succeed.
LogTopFunctions(trk, top_k, io_ok) ==
    IF trk = <<>> THEN [NoFlush EXCEPT !.ran = TRUE, !.top_k = top_k]
    ELSE
    LET built      == BuildCallTree(trk)
        roots0     == SortByCallId(built.root_nodes)
        finite     == ~top_k.full
        top        == IF finite THEN TopCallIds(roots0, built.tree, top_k.k) ELSE {}
        res        == IF finite THEN FilterTree(roots0, built.tree, top)
                      ELSE [filtered |-> roots0, tree |-> built.tree]
        root_nodes == res.filtered
        opened     == root_nodes # <<>> /\ io_ok
        failed     == root_nodes # <<>> /\ ~io_ok
    IN  [ran          |-> TRUE,
         top_k        |-> top_k,
         tracking     |-> trk,
         built_roots  |-> roots0,
         built_tree   |-> built.tree,
         top_call_ids |-> top,
         root_nodes   |-> root_nodes,
         tree         |-> res.tree,
         rendered     |-> IF opened THEN FormatRoots(root_nodes, res.tree) ELSE <<>>,
         written      |-> opened,
         io_error     |-> failed,
         cleared      |-> ~failed]

\* The lines one flush appends to the log file.
Block(fl) ==
    IF fl.written
      THEN [i \in 1..Len(fl.rendered) |-> NodeStr(fl.rendered[i])] \o <<Separator>>
      ELSE <<>>

----------------------------------------------------------------------------
(* The wrapper from the return of the wrapped callable on: lines 204-219    *)
(* (sync_wrapper), 175-190 (async_wrapper).                                *)

\* fr: the activation; outcome: how the wrapped callable ended; t: time.time()
\* at line 209.  Yields the new thread-local state, the flush that ran and
\* what the caller of the wrapper gets.
WrapperExit(fr, stack, trk, t, outcome, io_ok) ==
    LET stack1   == AfterCall(stack, outcome)
        duration == t - fr.start_time
        record   == outcome = "return" /\ MeetsThreshold(duration, fr.minimum_duration)
        trk1     == IF record THEN Append(trk, Entry(fr, duration)) ELSE trk
        fl       == IF record /\ Len(stack1) = 0
                      THEN LogTopFunctions(trk1, fr.top_k, io_ok)
                      ELSE NoFlush
    IN  [call_stack |-> IF fl.cleared THEN <<>> ELSE stack1,
         tracking   |-> IF fl.cleared THEN <<>> ELSE trk1,
         flush      |-> fl,
         outcome    |-> IF fl.io_error THEN "ioerror" ELSE outcome]

----------------------------------------------------------------------------
(* The state machine. *)

NoFrame == Activation(Decorated("", "", 0, Full), <<>>, None, 0)

NoExit ==
    [frame        |-> NoFrame,   \* the activation that exited
     body         |-> "none",    \* how the wrapped callable ended: "return", "raise", "cancel"
     outcome      |-> "none",    \* what the caller gets: "return", "raise", "cancel", "ioerror"
     elapsed      |-> 0,         \* time.time() at exit minus start_time
     stack_before |-> <<>>]      \* call_stack just before that activation entered

\* The calls in flight and the calls with an entry in the tracking list.
Live(frs, trk) ==
    { frs[i].call_id : i \in 1..Len(frs) } \cup { trk[i].call_id : i \in 1..Len(trk) }

Init ==
    /\ decorated \in Programs
    /\ call_stack = <<>>
    /\ call_id_counter = 0
    /\ tracking = <<>>
    /\ sink = <<>>
    /\ now = 0
    /\ frames = <<>>
    /\ entry_stack = <<>>
    /\ caller = [c \in {} |-> None]
    /\ lastExit = NoExit
    /\ flush = NoFlush
    /\ thread_of = <<>>
    /\ tls = <<>>
    /\ act = <<>>
    /\ files = <<>>
    /\ last = <<>>
    /\ hist = <<>>

\* A call of the decorated function f, from top-level code or from the body of
\* the innermost wrapped callable in flight: the wrapper up to the call of func.
Enter(f) ==
    /\ f \in decorated
    /\ call_id_counter < MaxCalls
    /\ LET call_id == GetNextCallId(call_id_counter)
       IN  /\ call_id_counter' = call_id
           /\ frames' = Append(frames, Activation(f, call_stack, call_id, now))
           /\ call_stack' = Push(call_stack, f.name, call_id)
           /\ entry_stack' = Append(entry_stack, call_stack)
           /\ caller' = (call_id :> (IF frames = <<>> THEN None ELSE Last(frames).call_id))
                         @@ caller
    /\ lastExit' = NoExit
    /\ flush' = NoFlush
    /\ UNCHANGED <<decorated, tracking, sink, now>>
    /\ UNCHANGED wvars

\* The wrapped callable of the innermost activation ends with `outcome`; the
\* wrapper runs to its end.
Exit(outcome, io_ok) ==
    /\ frames # <<>>
    /\ LET fr == Last(frames)
           r  == WrapperExit(fr, call_stack, tracking, now, outcome, io_ok)
       IN  /\ call_stack' = r.call_stack
           /\ tracking' = r.tracking
           /\ flush' = r.flush
           /\ sink' = sink \o Block(r.flush)
           /\ lastExit' = [frame        |-> fr,
                           body         |-> outcome,
                           outcome      |-> r.outcome,
                           elapsed      |-> now - fr.start_time,
                           stack_before |-> Last(entry_stack)]
    /\ frames' = Pop(frames)
    /\ entry_stack' = Pop(entry_stack)
    /\ caller' = [c \in Live(frames', tracking') |-> caller[c]]
    /\ UNCHANGED <<decorated, call_id_counter, now>>
    /\ UNCHANGED wvars

\* The wrapped callable returns.
Return ==
    /\ frames # <<>>
    /\ \E io_ok \in BOOLEAN : Exit("return", io_ok)

\* The wrapped callable raises (its own error, or one a callee's wrapper let through).
Raise ==
    /\ frames # <<>>
    /\ Exit("raise", TRUE)

\* A coroutine is cancelled at its await: CancelledError is raised at line 176.
Cancel ==
    /\ frames # <<>>
    /\ Last(frames).kind = "async"
    /\ Exit("cancel", TRUE)

\* Time passes.
Tick ==
    /\ now < MaxTime
    /\ now' = now + 1
    /\ lastExit' = NoExit
    /\ flush' = NoFlush
    /\ UNCHANGED <<decorated, call_stack, call_id_counter, tracking, sink, frames,
                   entry_stack, caller>>
    /\ UNCHANGED wvars

\* The system clock is set back: time.time() is not monotonic.
ClockSetBack ==
    /\ \E t \in 0..(now - 1) : now' = t
    /\ lastExit' = NoExit
    /\ flush' = NoFlush
    /\ UNCHANGED <<decorated, call_stack, call_id_counter, tracking, sink, frames,
                   entry_stack, caller>>
    /\ UNCHANGED wvars

Next ==
    \/ \E f \in decorated : Enter(f)
    \/ Return
    \/ Raise
    \/ Cancel
    \/ Tick
    \/ ClockSetBack

Spec == Init /\ [][Next]_vars

\* The same program with a sink that never fails (os.makedirs and open succeed).
ReturnSinkOk ==
    /\ frames # <<>>
    /\ Exit("return", TRUE)

NextSinkOk ==
    \/ \E f \in decorated : Enter(f)
    \/ ReturnSinkOk
    \/ Raise
    \/ Cancel
    \/ Tick
    \/ ClockSetBack

SpecSinkOk == Init /\ [][NextSinkOk]_vars

----------------------------------------------------------------------------
(* Vocabulary of the properties. *)

\* The last step was the exit of a wrapper.
Exited == lastExit.outcome # "none"

\* The exit of the last step was that of an outermost call (nothing is in flight).
OutermostExited == Exited /\ frames = <<>>

\* The entries of a tracking list with the given call_id.
EntriesOf(trk, call_id) == { e \in Range(trk) : e.call_id = call_id }

\* The entry the exit of the last step appended, if any: it is in the tracking
\* list, or in the list the flush of that step read.
LastExitEntries == EntriesOf(tracking, lastExit.frame.call_id)
                   \cup EntriesOf(flush.tracking, lastExit.frame.call_id)

----------------------------------------------------------------------------
(* C1.  Whenever an instrumented call exits and it was the outermost call,  *)
(* the flush pipeline runs and the tracking list and the call stack are     *)
(* cleared before control returns, whatever the call's duration and whether *)
(* it returned or raised.  (Exits whose flush hit a sink I/O error are left *)
(* out: they are not what this claim is about.)                             *)
C1_OutermostExitFlushes ==
    (OutermostExited /\ lastExit.outcome # "ioerror")
        => (flush.ran /\ tracking = <<>> /\ call_stack = <<>>)

(* C2.  In every state in which no instrumented call is in flight, the      *)
(* tracking list and the call stack are empty.                              *)
C2_NoLeakBetweenChains ==
    frames = <<>> => (tracking = <<>> /\ call_stack = <<>>)

(* C3.  An instrumented call that ends by raising, with an elapsed duration *)
(* >= its minimum_duration, has its record appended to the tracking list    *)
(* before the error reaches the caller.                                     *)
C3_RaisingCallRecorded ==
    (lastExit.body = "raise" /\ lastExit.elapsed >= lastExit.frame.minimum_duration)
        => LastExitEntries # {}

(* C4.  After an instrumented call exits by any path (return, raise,        *)
(* cancellation) the call stack is exactly what it was just before that     *)
(* call entered, and an error of the wrapped callable is what the caller    *)
(* of the wrapper observes.                                                 *)
C4_PopOnEveryExit ==
    Exited =>
        /\ call_stack = lastExit.stack_before
        /\ lastExit.body \in {"raise", "cancel"} => lastExit.outcome = lastExit.body

\* A nested call has raised and the stack is back to its caller's frames.
C4_Witness ==
    /\ lastExit.body = "raise"
    /\ lastExit.stack_before # <<>>
    /\ call_stack = lastExit.stack_before
    /\ Len(frames) = Len(call_stack)

(* C5.  A call that returns normally has a record in the tracking list iff  *)
(* its duration >= the minimum_duration of its function (equal counts); a   *)
(* call below the threshold has no record, yet the records of the calls it  *)
(* made carry its call_id as parent_id and count its frame in their depth.  *)
C5_ThresholdRule ==
    /\ lastExit.body = "return" =>
          /\ (LastExitEntries # {})
                <=> (lastExit.elapsed >= lastExit.frame.minimum_duration)
          /\ \A e \in LastExitEntries : e.duration = lastExit.elapsed
    /\ (lastExit.body = "return" /\ lastExit.elapsed < lastExit.frame.minimum_duration) =>
          \A e \in Range(tracking) :
              caller[e.call_id] = lastExit.frame.call_id =>
                  /\ e.parent_id = lastExit.frame.call_id
                  /\ e.depth = Len(lastExit.stack_before) + 1

\* A call has returned below its threshold, unrecorded, and a call it made is
\* recorded with it as parent.
C5_Witness ==
    /\ lastExit.body = "return"
    /\ lastExit.elapsed < lastExit.frame.minimum_duration
    /\ LastExitEntries = {}
    /\ \E e \in Range(tracking) :
           /\ caller[e.call_id] = lastExit.frame.call_id
           /\ e.parent_id = lastExit.frame.call_id

\* Entry c is listed under entry p in a tree dict.
IsChildIn(tree, c, p) == p.call_id \in DOMAIN tree /\ c \in Range(tree[p.call_id])

(* C6.  At every flush, for the records C and P of the tracking list (the   *)
(* calls that returned and met their thresholds): C is listed as a child of *)
(* P in the built tree iff P was the direct dynamic caller of C.            *)
C6_TreeEdgesMatchNesting ==
    [][flush'.ran =>
          \A c, p \in Range(flush'.tracking) :
              IsChildIn(flush'.built_tree, c, p) <=> (caller[c.call_id] = p.call_id)]_vars

\* A flush has built a tree with a recorded grandchild, child and parent.
C6_Witness ==
    /\ flush.ran
    /\ \E c, p, g \in Range(flush.tracking) :
           IsChildIn(flush.built_tree, c, p) /\ IsChildIn(flush.built_tree, p, g)

\* The call_ids of the recorded ancestors of an entry: its parent chain, as far
\* as records exist.
RECURSIVE Ancestors(_, _)
Ancestors(e, trk) ==
    LET ps == EntriesOf(trk, e.parent_id)
    IN  IF e.parent_id = None \/ ps = {} THEN {}
        ELSE {e.parent_id} \cup Ancestors(CHOOSE q \in ps : TRUE, trk)

\* The entries whose parent chain ends in a root entry (parent_id None).
RECURSIVE Rooted(_, _)
Rooted(e, trk) ==
    \/ e.parent_id = None
    \/ \E q \in EntriesOf(trk, e.parent_id) : Rooted(q, trk)

ReachableEntries(trk) == { e \in Range(trk) : Rooted(e, trk) }

\* The call_ids of the entries whose lines the flush of the last step wrote.
RenderedIds == { flush.rendered[i].entry.call_id : i \in 1..Len(flush.rendered) }

(* C7.  At a flush (top_k "full"), a record whose parent_id equals the       *)
(* call_id of no record in the tracking list is rendered as a root.         *)
C7_OrphanRenderedAsRoot ==
    (flush.written /\ flush.top_k.full) =>
        \A e \in Range(flush.tracking) :
            EntriesOf(flush.tracking, e.parent_id) = {} =>
                \E i \in 1..Len(flush.rendered) :
                    flush.rendered[i].entry = e /\ flush.rendered[i].indent = 0

(* C8.  With a finite top_k, every rendered record that is not in the       *)
(* keep-set has a rendered descendant that is.                              *)
C8_FilterKeepsOnlyConnectors ==
    (flush.written /\ ~flush.top_k.full) =>
        \A i \in 1..Len(flush.rendered) :
            flush.rendered[i].entry.call_id \notin flush.top_call_ids =>
                \E j \in 1..Len(flush.rendered) :
                    /\ flush.rendered[j].entry.call_id \in flush.top_call_ids
                    /\ flush.rendered[i].entry.call_id
                           \in Ancestors(flush.rendered[j].entry, flush.tracking)

(* C9.  With a positive top_k = N, the keep-set is N of the longest records *)
(* reachable from a root (all of them when there are fewer), and every      *)
(* record of the keep-set is rendered, with every one of its ancestors,     *)
(* also the ancestors that are not in the keep-set.                         *)
C9_TopKComplete ==
    (flush.ran /\ ~flush.top_k.full /\ flush.top_k.k > 0 /\ ~flush.io_error) =>
        LET all == ReachableEntries(flush.tracking)
            top == { e \in all : e.call_id \in flush.top_call_ids }
        IN  /\ flush.top_call_ids \subseteq { e.call_id : e \in all }
            /\ Cardinality(top) = Min(flush.top_k.k, Cardinality(all))
            /\ \A x \in top : \A y \in all \ top : x.duration >= y.duration
            /\ \A x \in top :
                   /\ x.call_id \in RenderedIds
                   /\ Ancestors(x, flush.tracking) \subseteq RenderedIds

\* A block was written in which an ancestor outside the keep-set is rendered
\* above a descendant of the keep-set.
C9_Witness ==
    /\ flush.written
    /\ ~flush.top_k.full
    /\ flush.top_k.k > 0
    /\ \E i, j \in 1..Len(flush.rendered) :
           /\ flush.rendered[i].entry.call_id \notin flush.top_call_ids
           /\ flush.rendered[j].entry.call_id \in flush.top_call_ids
           /\ flush.rendered[i].entry.call_id
                  \in Ancestors(flush.rendered[j].entry, flush.tracking)

(* C10, as claimed.  For every top_k <= 0 the keep-set is empty and nothing *)
(* is rendered.  (Flushes that hit a sink I/O error are left out.)          *)
C10_NonPositiveKeepsNothing ==
    (flush.ran /\ ~flush.top_k.full /\ flush.top_k.k <= 0 /\ ~flush.io_error) =>
        (flush.top_call_ids = {} /\ ~flush.written /\ flush.rendered = <<>>)

(* C10, amended.  top_k = 0 keeps nothing and nothing is rendered; a        *)
(* negative top_k = -m keeps all but m of the records reachable from a      *)
(* root, the longest ones (nothing only when there are at most m), and      *)
(* whenever the keep-set is empty nothing is rendered.                      *)
C10_ZeroKeepsNothing ==
    (flush.ran /\ ~flush.top_k.full /\ flush.top_k.k <= 0) =>
        LET all == ReachableEntries(flush.tracking)
            top == { e \in all : e.call_id \in flush.top_call_ids }
        IN  /\ flush.top_call_ids \subseteq { e.call_id : e \in all }
            /\ Cardinality(top) = IF flush.top_k.k = 0 THEN 0
                                  ELSE Max(Cardinality(all) + flush.top_k.k, 0)
            /\ \A x \in top : \A y \in all \ top : x.duration >= y.duration
            /\ flush.top_call_ids = {} =>
                   (~flush.written /\ ~flush.io_error /\ flush.rendered = <<>>)

\* A flush with a negative top_k has kept a record and written a block.
C10_Witness ==
    /\ flush.written
    /\ ~flush.top_k.full
    /\ flush.top_k.k < 0
    /\ flush.top_call_ids # {}

----------------------------------------------------------------------------
(* C11.  When the flush of an outermost call fails at the sink, the         *)
(* failure reaches the caller and the tracking list and the call stack are  *)
(* nevertheless cleared.                                                    *)
C11_SinkFailureClearsState ==
    lastExit.outcome = "ioerror" => (tracking = <<>> /\ call_stack = <<>>)

(* C15.  For properly nested calls, a call's parent_id is None iff the call *)
(* stack was empty when it entered (it is an outermost call); otherwise it  *)
(* is the call_id of the frame on top of the stack at entry, which is the   *)
(* innermost instrumented call still in flight.                             *)
C15_ParentAttribution ==
    \A i \in 1..Len(frames) :
        /\ (frames[i].parent_id = None) <=> (entry_stack[i] = <<>>)
        /\ (frames[i].parent_id = None) <=> (i = 1)
        /\ i > 1 => /\ frames[i].parent_id = Last(entry_stack[i])[2]
                    /\ frames[i].parent_id = frames[i - 1].call_id
        /\ caller[frames[i].call_id] = frames[i].parent_id

\* A call is in flight two levels below an outermost call.
C15_Witness ==
    /\ Len(frames) = 3
    /\ frames[1].parent_id = None
    /\ frames[3].parent_id = frames[2].call_id

(* C16.  Within the context the call_ids assigned at entry are 1, 2, 3, ... *)
(* in entry order: every entry takes the counter plus one, and nothing else *)
(* (no exit, no flush) changes the counter.                                 *)
C16_CallIdMonotonic ==
    [][IF Len(frames') = Len(frames) + 1
         THEN /\ call_id_counter' = call_id_counter + 1
              /\ Last(frames').call_id = call_id_counter + 1
              /\ \A c \in DOMAIN caller : c < Last(frames').call_id
         ELSE call_id_counter' = call_id_counter]_vars

\* A call has entered after a flush wrote its block and reset the context.
C16_Witness ==
    /\ sink # <<>>
    /\ tracking = <<>>
    /\ Len(frames) = 1
    /\ frames[1].call_id > 1

\* A list of entries is in strictly ascending call_id order.
Ascending(entries) ==
    \A i, j \in 1..Len(entries) : i < j => entries[i].call_id < entries[j].call_id

\* s is t with some elements left out, the others in the same order.
RECURSIVE IsSubSeq(_, _)
IsSubSeq(s, t) ==
    IF s = <<>> THEN TRUE
    ELSE IF t = <<>> THEN FALSE
    ELSE IF Head(s) = Head(t) THEN IsSubSeq(Tail(s), Tail(t))
    ELSE IsSubSeq(s, Tail(t))

(* C17.  In the tree built at a flush every children list and the roots     *)
(* list are in strictly ascending call_id order, and the top_k filter keeps *)
(* the surviving siblings and roots in that relative order.                 *)
C17_SiblingOrder ==
    flush.ran =>
        /\ Ascending(flush.built_roots)
        /\ \A p \in DOMAIN flush.built_tree : Ascending(flush.built_tree[p])
        /\ IsSubSeq(flush.root_nodes, flush.built_roots)
        /\ DOMAIN flush.tree = DOMAIN flush.built_tree
        /\ \A p \in DOMAIN flush.tree : IsSubSeq(flush.tree[p], flush.built_tree[p])

\* A flush with a finite top_k has built a tree in which a parent has two children.
C17_Witness ==
    /\ flush.ran
    /\ ~flush.top_k.full
    /\ \E p \in DOMAIN flush.built_tree : Len(flush.built_tree[p]) >= 2

(* C18.  Each record's depth is the call-stack length at its entry, 0       *)
(* exactly for the records with parent_id None, and a record whose          *)
(* parent_id is the call_id of another record of the tracking list is       *)
(* deeper than that record.                                                 *)
C18_DepthInvariant ==
    /\ \A i \in 1..Len(frames) : frames[i].depth = Len(entry_stack[i])
    /\ \A e \in LastExitEntries : e.depth = Len(lastExit.stack_before)
    /\ \A e \in Range(tracking) :
           /\ e.depth >= 0
           /\ (e.depth = 0) <=> (e.parent_id = None)
           /\ \A q \in EntriesOf(tracking, e.parent_id) : q.depth < e.depth

\* The tracking list holds a record and the record of its parent.
C18_Witness ==
    \E e \in Range(tracking) :
        /\ e.parent_id # None
        /\ EntriesOf(tracking, e.parent_id) # {}

(* C20.  With top_k "full" or a positive integer, every flush block        *)
(* written to the sink has exactly one root (unindented) line, the record   *)
(* of the outermost call whose exit triggered the flush: records left in    *)
(* the tracking list by earlier outermost calls are not rendered.           *)
C20_OneRootPerBlock ==
    (flush.written /\ (flush.top_k.full \/ flush.top_k.k > 0)) =>
        \A i \in 1..Len(flush.rendered) :
            (flush.rendered[i].indent = 0)
                <=> (flush.rendered[i].entry.call_id = lastExit.frame.call_id)

----------------------------------------------------------------------------
(* Several execution contexts.  Two workers run decorated functions: two    *)
(* threads, or two asyncio tasks of one thread.  All state of the module is *)
(* in _thread_local (line 7), so a thread sees its own call_stack, tracking *)
(* and call_id_counter, and the tasks of one thread share them.  A wrapper  *)
(* keeps the list object it got from _get_call_stack() in its local         *)
(* `call_stack` (lines 166, 195) and pushes to and pops from that object,   *)
(* while lines 124-125 bind new lists to the thread-local attributes.  All  *)
(* decorated functions log to the same path.                                *)

Workers == {1, 2}
Threads == {1, 2}

\* Two threads with one call sequence each, or two tasks on thread 1.
Layouts == { <<1, 2>>, <<1, 1>> }

\* A module-level global instead of threading.local().
ModuleGlobal(thread) == 1

\* threading.local(): an attribute of _thread_local is looked up per thread.
ThreadLocal(thread) == thread

\* The attributes as _get_call_stack, _get_tracking_list and _get_next_call_id
\* create them on first use.  lists: the list objects that have been bound to
\* _thread_local.call_stack; call_stack: the one bound now.
NewContext ==
    [lists           |-> << <<>> >>,
     call_stack      |-> 1,
     call_id_counter |-> 0,
     tracking        |-> <<>>]

\* Lines 124-125: new list objects are bound to tracking and call_stack.
Reset(ctx) ==
    [ctx EXCEPT !.tracking   = <<>>,
                !.lists      = Append(@, <<>>),
                !.call_stack = Len(ctx.lists) + 1]

NoStep ==
    [worker  |-> 0,         \* the worker that took the step
     op      |-> "none",    \* "enter", "exit", "open" (the with block entered), "write"
     outcome |-> "none",    \* at "exit": what the caller of the wrapper gets
     frame   |-> NoFrame,   \* the activation that entered or exited
     popped  |-> <<>>,      \* the stack element call_stack.pop() removed
     flushed |-> <<>>]      \* the tracking list _log_top_functions worked on

NoHistory ==
    [writers |-> <<>>,                         \* per line of the sink: <<worker, call_id>>
     created |-> {},                           \* <<thread, entry>> per record appended
     entered |-> [t \in Threads |-> <<>>]]     \* per call entered on the thread

CallIds(stack) == [i \in 1..Len(stack) |-> stack[i][2]]

OwnCallIds(w) == [i \in 1..Len(act[w]) |-> act[w][i].frame.call_id]

\* The call_ids in flight in the entering task and those on the stack, as
\* they were when the call `call_id` entered on `thread`.
EnteredAs(thread, call_id) ==
    CHOOSE g \in Range(hist.entered[thread]) : g.call_id = call_id

\* The call_ids in flight on `thread` or recorded in its tracking list.
LiveOn(thread, tl, ac) ==
    UNION { { ac[w][i].frame.call_id : i \in 1..Len(ac[w]) } :
              w \in { v \in Workers : thread_of[v] = thread } } \cup
    { e.call_id : e \in Range(tl[ThreadLocal(thread)].tracking) }

\* The history of the calls and records that are gone is dropped.
Forget(h, tl, ac) ==
    [h EXCEPT !.entered = [t \in Threads |->
                             SelectSeq(h.entered[t],
                                       LAMBDA g : g.call_id \in LiveOn(t, tl, ac))],
              !.created = { c \in h.created :
                              c[2] \in Range(tl[ThreadLocal(c[1])].tracking) }]

\* A task that is not running: it is at an await (in an async wrapper at line
\* 176, or in code outside every wrapper).  A sync callable cannot yield.
Suspended(v) ==
    /\ files[v] = <<>>
    /\ IF act[v] = <<>> THEN TRUE ELSE Last(act[v]).frame.kind = "async"

\* The event loop runs one task of a thread at a time; threads run in parallel.
CanRun(w) ==
    \A v \in Workers \ {w} : thread_of[v] = thread_of[w] => Suspended(v)

\* The program the workers run: both functions record every call that
\* returns and log the whole tree.  The clock stands still in these runs
\* (every duration is 0): what is recorded does not depend on timing.
WorkerProgram ==
    { Decorated("main",  "sync",  0, Full),
      Decorated("fetch", "async", 0, Full) }

InitWorkers ==
    /\ decorated = WorkerProgram
    /\ sink = <<>>
    /\ now = 0
    /\ call_stack = <<>>
    /\ call_id_counter = 0
    /\ tracking = <<>>
    /\ frames = <<>>
    /\ entry_stack = <<>>
    /\ caller = [c \in {} |-> None]
    /\ lastExit = NoExit
    /\ flush = NoFlush
    /\ thread_of \in Layouts
    /\ tls = [t \in Threads |-> NewContext]
    /\ act = [w \in Workers |-> <<>>]
    /\ files = [w \in Workers |-> <<>>]
    /\ last = NoStep
    /\ hist = NoHistory

\* Worker w calls the decorated function f: the wrapper up to the call of func
\* (lines 166-173, 195-203).
WorkerEnter(w, f) ==
    /\ f \in decorated
    /\ files[w] = <<>>
    /\ CanRun(w)
    /\ tls[1].call_id_counter + tls[2].call_id_counter < MaxCalls
    \* the workers are interchangeable: the one that calls first is worker 1
    /\ w = 2 => tls[1].call_id_counter > 0
    /\ LET key     == ThreadLocal(thread_of[w])
           ctx     == tls[key]
           stack   == ctx.lists[ctx.call_stack]
           call_id == GetNextCallId(ctx.call_id_counter)
           fr      == Activation(f, stack, call_id, now)
       IN  /\ tls' = [tls EXCEPT ![key] =
                        [ctx EXCEPT !.call_id_counter = call_id,
                                    !.lists = [@ EXCEPT ![ctx.call_stack] =
                                                 Push(stack, f.name, call_id)]]]
           /\ act' = [act EXCEPT ![w] =
                        Append(@, [frame |-> fr, call_stack |-> ctx.call_stack])]
           /\ last' = [NoStep EXCEPT !.worker = w, !.op = "enter", !.frame = fr]
           /\ hist' = [hist EXCEPT !.entered[thread_of[w]] =
                         Append(@, [call_id |-> call_id,
                                    own     |-> OwnCallIds(w),
                                    stack   |-> CallIds(stack)])]
    /\ UNCHANGED <<decorated, sink, now, thread_of, files>>
    /\ UNCHANGED svars

\* The wrapped callable of w's innermost activation ends with `outcome`: the
\* wrapper from the finally block to its end, or to the `with open(...)` of
\* line 117 when a block is to be written (lines 175-190, 204-219, 69-125).
WorkerExit(w, outcome) ==
    /\ act[w] # <<>>
    /\ files[w] = <<>>
    /\ CanRun(w)
    /\ LET top   == Last(act[w])
           fr    == top.frame
           key   == ThreadLocal(thread_of[w])
           ctx   == tls[key]
           stack == ctx.lists[top.call_stack]
       IN  IF stack = <<>>
             THEN \* call_stack.pop() raises IndexError in the finally block
                  /\ act' = [act EXCEPT ![w] = Pop(@)]
                  /\ last' = [NoStep EXCEPT !.worker = w, !.op = "exit",
                                            !.outcome = "indexerror", !.frame = fr]
                  /\ UNCHANGED <<tls, files>>
                  /\ hist' = Forget(hist, tls', act')
             ELSE
             LET stack1   == AfterCall(stack, outcome)
                 duration == now - fr.start_time
                 record   == outcome = "return"
                             /\ MeetsThreshold(duration, fr.minimum_duration)
                 trk1     == IF record THEN Append(ctx.tracking, Entry(fr, duration))
                             ELSE ctx.tracking
                 fl       == IF record /\ Len(stack1) = 0
                               THEN LogTopFunctions(trk1, fr.top_k, TRUE)
                               ELSE NoFlush
                 ctx1     == [ctx EXCEPT !.lists = [@ EXCEPT ![top.call_stack] = stack1],
                                         !.tracking = trk1]
                 step     == [NoStep EXCEPT !.worker = w, !.frame = fr,
                                            !.popped = Last(stack),
                                            !.flushed = fl.tracking]
                 hist1    == IF record
                               THEN [hist EXCEPT !.created =
                                       @ \cup {<<thread_of[w], Entry(fr, duration)>>}]
                               ELSE hist
             IN  /\ IF fl.written
                      THEN /\ tls' = [tls EXCEPT ![key] = ctx1]
                           /\ files' = [files EXCEPT ![w] = Block(fl)]
                           /\ last' = [step EXCEPT !.op = "open"]
                           /\ act' = act
                      ELSE /\ tls' = [tls EXCEPT ![key] =
                                        IF fl.cleared THEN Reset(ctx1) ELSE ctx1]
                           /\ files' = files
                           /\ last' = [step EXCEPT !.op = "exit", !.outcome = outcome]
                           /\ act' = [act EXCEPT ![w] = Pop(@)]
                 /\ hist' = Forget(hist1, tls', act')
    /\ UNCHANGED <<decorated, sink, now, thread_of>>
    /\ UNCHANGED svars

WorkerReturn(w) == act[w] # <<>> /\ WorkerExit(w, "return")

\* The callable raises, or the coroutine is cancelled at its await.
WorkerRaise(w) == act[w] # <<>> /\ WorkerExit(w, "raise")

\* The file object of w hands its next n buffered lines to the file in one
\* write; with the last of them the with block closes the file, lines 124-125
\* run and the wrapper returns.  f.write (lines 121-122) only fills the
\* buffer of the file object: a block that fits the buffer reaches the file
\* in one write at close, a larger one in several.
WorkerWrite(w, n) ==
    /\ files[w] # <<>>
    /\ n \in 1..Len(files[w])
    /\ LET top == Last(act[w])
           key == ThreadLocal(thread_of[w])
       IN  /\ sink' = sink \o SubSeq(files[w], 1, n)
           /\ files' = [files EXCEPT ![w] = SubSeq(@, n + 1, Len(@))]
           /\ IF n = Len(files[w])
                THEN /\ tls' = [tls EXCEPT ![key] = Reset(@)]
                     /\ act' = [act EXCEPT ![w] = Pop(@)]
                     /\ last' = [NoStep EXCEPT !.worker = w, !.op = "exit",
                                               !.outcome = "return", !.frame = top.frame]
                ELSE /\ last' = [NoStep EXCEPT !.worker = w, !.op = "write",
                                               !.frame = top.frame]
                     /\ UNCHANGED <<tls, act>>
           /\ hist' = Forget([hist EXCEPT !.writers =
                                @ \o [i \in 1..n |-> <<w, top.frame.call_id>>]],
                            tls', act')
    /\ UNCHANGED <<decorated, now, thread_of>>
    /\ UNCHANGED svars

NextWorkers ==
    \/ \E w \in Workers : \E f \in decorated : WorkerEnter(w, f)
    \/ \E w \in Workers : WorkerReturn(w)
    \/ \E w \in Workers : WorkerRaise(w)
    \/ \E w \in Workers : \E n \in 1..(MaxCalls + 1) : WorkerWrite(w, n)

SpecWorkers == InitWorkers /\ [][NextWorkers]_vars

----------------------------------------------------------------------------
(* Properties of the workers. *)

TwoThreads == thread_of[1] # thread_of[2]
TwoTasks   == thread_of[1] = thread_of[2]

\* The list object the i-th activation of w pushed to and will pop from.
StackOf(w, i) == tls[ThreadLocal(thread_of[w])].lists[act[w][i].call_stack]

\* w is inside the with block of line 117: its wrapper has popped its frame.
Flushing(w) == files[w] # <<>>

(* C12.  When two threads flush to the same path, the lines of each flush   *)
(* block (through its separator) are contiguous in the sink: no line of     *)
(* another block lies between two lines of one block.                      *)
C12_BlocksContiguous ==
    TwoThreads =>
        /\ Len(hist.writers) = Len(sink)
        /\ \A i, j, k \in 1..Len(hist.writers) :
               (i < j /\ j < k /\ hist.writers[i] = hist.writers[k])
                   => hist.writers[j] = hist.writers[i]

(* C13.  A step of one thread (entry, exit, flush) leaves the call stack,   *)
(* counter and tracking list of every other thread unchanged, and the       *)
(* activations and open file of every other worker; the tracking list a     *)
(* flush works on holds only records created on the flushing thread.        *)
C13_ContextIsolation ==
    [][LET w == last'.worker
       IN  /\ w \in Workers
           /\ \A t \in Threads \ {thread_of[w]} : tls'[t] = tls[t]
           /\ \A v \in Workers \ {w} : act'[v] = act[v] /\ files'[v] = files[v]
           /\ \A e \in Range(last'.flushed) :
                  \/ e.call_id = last'.frame.call_id
                  \/ <<thread_of[w], e>> \in hist.created]_vars

\* A thread starts a flush of more than one record while the other thread
\* has a call in flight and a record in its tracking list.
C13_Witness ==
    /\ TwoThreads
    /\ last.op = "open"
    /\ Len(last.flushed) >= 2
    /\ \E v \in Workers \ {last.worker} :
           /\ act[v] # <<>>
           /\ tls[thread_of[v]].tracking # <<>>

(* C14.  The bookkeeping never fails on its own: whatever the interleaving  *)
(* of tasks and threads, and although flushes bind a new list to            *)
(* _thread_local.call_stack, every activation that has yet to pop finds a   *)
(* non-empty stack, and a caller only ever sees the return or the error of  *)
(* the wrapped callable.                                                    *)
C14_PopNeverFails ==
    /\ last.outcome \in {"none", "return", "raise"}
    /\ \A w \in Workers : \A i \in 1..Len(act[w]) :
           \/ i = Len(act[w]) /\ Flushing(w)
           \/ StackOf(w, i) # <<>>

\* With two tasks on one thread, the exit of one task has popped the frame
\* of the other task's call and has started a flush.
C14_Witness ==
    /\ TwoTasks
    /\ last.op = "open"
    /\ last.popped # <<>>
    /\ last.popped[2] # last.frame.call_id

(* C19 (as stated).  Every recorded parent_id names a call of the same task *)
(* that was in flight when the child entered, also when async tasks         *)
(* interleave on one thread.                                                *)
C19_ParentInOwnTask ==
    \A r \in UNION { { [thread |-> t, entry |-> e, at |-> EnteredAs(t, e.call_id)] :
                         e \in Range(tls[ThreadLocal(t)].tracking) } : t \in Threads } :
        r.entry.parent_id # None => r.entry.parent_id \in Range(r.at.own)

(* C19 (amended).  A record's parent_id is the call_id that was on top of   *)
(* the thread's shared call stack when the call entered (None if it was     *)
(* empty).  It is the innermost call of the same task in flight at that     *)
(* moment whenever the stack then held exactly the calls in flight of the   *)
(* entering task (non-interleaved use).                                     *)
C19_ParentIsTopOfSharedStack ==
    \A t \in Threads : \A e \in Range(tls[ThreadLocal(t)].tracking) :
        LET at == EnteredAs(t, e.call_id)
        IN  /\ e.parent_id = (IF at.stack = <<>> THEN None ELSE Last(at.stack))
            /\ at.stack = at.own =>
                   e.parent_id = (IF at.own = <<>> THEN None ELSE Last(at.own))

\* A call entered while the stack held a frame that is not of its task was
\* recorded with that frame's call as parent.
C19_Witness ==
    /\ TwoTasks
    /\ \E e \in Range(tls[ThreadLocal(1)].tracking) :
           LET at == EnteredAs(1, e.call_id)
           IN  /\ at.stack # at.own
               /\ e.parent_id # None
               /\ e.parent_id \notin Range(at.own)

====
